---- MODULE Spec2Model ----
(***************************************************************************)
(* stencil-lazy: src/src/index.ts                                          *)
(*                                                                         *)
(* registerLazy(component, element, callback, marginProp) defers a         *)
(* callback until the element intersects the viewport (IntersectionObserver*)
(* path) or until a 300 ms timer fires (setTimeout fallback).              *)
(* getValidMargin(margin) validates a CSS-margin-like rootMargin string.   *)
(*                                                                         *)
(* Strings are sequences of one-character strings.  The JS values          *)
(* undefined and null are the one-element sequences Undefined and Null,    *)
(* which no string of characters equals.                                   *)
(***************************************************************************)
EXTENDS Integers, Sequences, FiniteSets, TLC

VARIABLES
    hasIO,      \* "IntersectionObserver" in window
    regs,       \* the registerLazy calls made so far, with each closure's io variable
    watchers,   \* the IntersectionObserver objects constructed so far
    timers,     \* the runtime's setTimeout table
    ncalls,     \* ncalls[r]: how many times registration r's callback was invoked
    delivered,  \* delivered[w]: the reports the runtime has delivered to watcher w
    last,       \* the event handled last: a registerLazy call, a report, a timeout, a tick
    call,       \* the callback invocation made while handling it (NoCall if none)
    hook,       \* the run of the wrapped componentDidLoad that made the last registerLazy call
    marginIn,   \* argument of a standalone getValidMargin call
    marginOut   \* its result, Unset before the call

vars == <<hasIO, regs, watchers, timers, ncalls, delivered, last, call, hook,
          marginIn, marginOut>>

-----------------------------------------------------------------------------
(* Bounds of the model *)

MaxRegs == 2        \* registerLazy calls per behaviour
MaxReports == 2     \* intersection reports delivered in one behaviour
MaxBatch == 2       \* entries in one intersection report
TickStep == 150     \* time units by which the clock advances in one step
MaxLen == 5         \* length of the exhaustively enumerated margin strings
MaxTokens == 4      \* tokens in the margin strings joined from sample tokens

-----------------------------------------------------------------------------
(* JS values *)

Undefined == <<"undefined">>
Null == <<"null">>
Unset == <<"unset">>

Digits == {"0", "1", "2", "3", "4", "5", "6", "7", "8", "9"}
Whitespace == {" ", "\t", "\n"}

-----------------------------------------------------------------------------
(* getValidMargin, index.ts:91-97 *)

\* One step of the automaton of /^(-?\d*\.?\d+)(px|%)$/ : index.ts:92
RegexpStep(q, ch) ==
    CASE q = "start" /\ ch = "-" -> "sign"
      [] q \in {"start", "sign", "int"} /\ ch \in Digits -> "int"
      [] q \in {"start", "sign", "int"} /\ ch = "." -> "dot"
      [] q \in {"dot", "frac"} /\ ch \in Digits -> "frac"
      [] q \in {"int", "frac"} /\ ch = "p" -> "p"
      [] q \in {"int", "frac"} /\ ch = "%" -> "end"
      [] q = "p" /\ ch = "x" -> "end"
      [] OTHER -> "fail"

RECURSIVE RegexpRun(_, _, _)
RegexpRun(q, s, i) ==
    IF i > Len(s) THEN q ELSE RegexpRun(RegexpStep(q, s[i]), s, i + 1)

\* regexp.test(token): the whole token is matched (anchors ^ and $)
regexp_test(token) == RegexpRun("start", token, 1) = "end"

\* s.split(/\s+/): the pieces between maximal runs of whitespace; a run at
\* the start or at the end of s leaves an empty piece there.
RECURSIVE SplitFrom(_, _, _)
SplitFrom(s, i, piece) ==
    IF i > Len(s) THEN <<piece>>
    ELSE IF s[i] \in Whitespace
         THEN IF i > 1 /\ s[i - 1] \in Whitespace
              THEN SplitFrom(s, i + 1, piece)
              ELSE <<piece>> \o SplitFrom(s, i + 1, <<>>)
         ELSE SplitFrom(s, i + 1, Append(piece, s[i]))

split(s) == SplitFrom(s, 1, <<>>)

\* margin || "0px": undefined and "" are falsy
Falsy(v) == v = Undefined \/ v = Null \/ v = <<>>

\* faulty variants of getValidMargin: partial acceptance; blank input defaulted
getValidMargin_some(margin) ==
    LET marginString == IF Falsy(margin) THEN <<"0", "p", "x">> ELSE margin
        tokens == split(marginString)
    IN  IF \E k \in 1..Len(tokens) : regexp_test(tokens[k])
        THEN marginString
        ELSE Null

getValidMargin_blank(margin) ==
    LET blank == \A k \in 1..Len(margin) : margin[k] \in Whitespace
        marginString == IF Falsy(margin) \/ blank THEN <<"0", "p", "x">> ELSE margin
        tokens == split(marginString)
    IN  IF \A k \in 1..Len(tokens) : regexp_test(tokens[k])
        THEN marginString
        ELSE Null

getValidMargin(margin) ==
    LET marginString == IF Falsy(margin) THEN <<"0", "p", "x">> ELSE margin
        tokens == split(marginString)
    IN  IF \A k \in 1..Len(tokens) : regexp_test(tokens[k])
        THEN marginString
        ELSE Null

-----------------------------------------------------------------------------
(* Inputs *)

Components == {"c1", "c2"}
Margins == { <<"1", "0", "0", "p", "x">>,
             <<"i", "n", "v", "a", "l", "i", "d">> }

\* The arguments registerLazy is called with are those of its call site,
\* index.ts:41-44: the component instance, its host element, its decorated
\* method and a margin.  Margins are the values of options.margin; without
\* options the margin passed is the empty string.
getElement(component) == <<component, "host">>
Method(component) == <<component, "lazyCallback">>

Entries == [isIntersecting : BOOLEAN]
Batches == UNION { [1..n -> Entries] : n \in 1..MaxBatch }
Outcomes == {"return", "throw"}     \* how an invocation of the callback ends

NoCall == [invoked |-> FALSE, callback |-> <<>>, receiver |-> "none",
           nargs |-> 0, outcome |-> "none"]

Event(op, r, data) == [op |-> op, reg |-> r, data |-> data]

-----------------------------------------------------------------------------
(* registerLazy, index.ts:54-84 *)

Delay == 300

\* callback.call(component): index.ts:70 and index.ts:81
InvokeCallback_plain(r, outcome) ==
    [invoked |-> TRUE, callback |-> regs[r].callback, receiver |-> "undefined",
     nargs |-> 0, outcome |-> outcome]

InvokeCallback(r, outcome) ==
    [invoked |-> TRUE, callback |-> regs[r].callback, receiver |-> regs[r].component,
     nargs |-> 0, outcome |-> outcome]

\* one call of registerLazy: its arguments, whether it threw, and the io
\* variable of its closure (a watcher, or 0 for null / never assigned)
Registration(component, element, callback, marginProp, threw, io) ==
    [component |-> component, element |-> element, callback |-> callback,
     marginProp |-> marginProp, threw |-> threw, io |-> io]

\* new IntersectionObserver(cb, { rootMargin: margin }); io.observe(element)
NewWatcher_nooptions(r, margin, element) ==
    [reg |-> r, rootMargin |-> <<"0", "p", "x">>, targets |-> {element}]

NewWatcher(r, margin, element) ==
    [reg |-> r, rootMargin |-> margin, targets |-> {element}]

\* setTimeout(() => { ... }, 300)
NewTimer_nodelay(r) == [reg |-> r, delay |-> 0, elapsed |-> 0, pending |-> TRUE]

NewTimer(r) == [reg |-> r, delay |-> Delay, elapsed |-> 0, pending |-> TRUE]

\* the branch taken when "IntersectionObserver" in window: index.ts:61-77
PrimaryPath_novalidate(r, component, element, callback, marginProp) ==
    LET margin == getValidMargin(marginProp)
    IN  /\ watchers' = Append(watchers, NewWatcher(r, margin, element))
        /\ delivered' = Append(delivered, [nFalse |-> 0, nTrue |-> 0])
        /\ regs' = Append(regs, Registration(component, element, callback,
                                              marginProp, FALSE, Len(watchers) + 1))
        /\ UNCHANGED timers

PrimaryPath_observefirst(r, component, element, callback, marginProp) ==
    LET margin == getValidMargin(marginProp)
    IN  /\ watchers' = Append(watchers, NewWatcher(r, margin, element))
        /\ delivered' = Append(delivered, [nFalse |-> 0, nTrue |-> 0])
        /\ regs' = Append(regs, Registration(component, element, callback,
                                              marginProp, margin = Null,
                                              Len(watchers) + 1))
        /\ UNCHANGED timers

PrimaryPath(r, component, element, callback, marginProp) ==
    LET margin == getValidMargin(marginProp)
    IN  IF margin = Null
        THEN \* throw new Error(...)
             /\ regs' = Append(regs, Registration(component, element, callback,
                                                   marginProp, TRUE, 0))
             /\ UNCHANGED <<watchers, delivered, timers>>
        ELSE /\ watchers' = Append(watchers, NewWatcher(r, margin, element))
             /\ delivered' = Append(delivered, [nFalse |-> 0, nTrue |-> 0])
             /\ regs' = Append(regs, Registration(component, element, callback,
                                                   marginProp, FALSE, Len(watchers) + 1))
             /\ UNCHANGED timers

\* the else branch: index.ts:78-83
FallbackPath(r, component, element, callback, marginProp) ==
    /\ timers' = Append(timers, NewTimer(r))
    /\ regs' = Append(regs, Registration(component, element, callback,
                                          marginProp, FALSE, 0))
    /\ UNCHANGED <<watchers, delivered>>

\* faulty variant: the fallback invokes the callback at once, without a timer
registerLazy_eager(component, element, callback, marginProp) ==
    /\ Len(regs) < MaxRegs
    /\ LET r == Len(regs) + 1
       IN  IF hasIO
           THEN /\ PrimaryPath(r, component, element, callback, marginProp)
                /\ ncalls' = Append(ncalls, 0)
                /\ call' = NoCall
           ELSE /\ regs' = Append(regs, Registration(component, element, callback,
                                                      marginProp, FALSE, 0))
                /\ ncalls' = Append(ncalls, 1)
                /\ call' = [invoked |-> TRUE, callback |-> callback,
                            receiver |-> component, nargs |-> 0, outcome |-> "return"]
                /\ UNCHANGED <<watchers, delivered, timers>>
    /\ last' = Event("registerLazy", Len(regs) + 1, <<>>)
    /\ UNCHANGED <<hasIO, marginIn, marginOut>>

registerLazy(component, element, callback, marginProp) ==
    /\ Len(regs) < MaxRegs
    /\ LET r == Len(regs) + 1
       IN  IF hasIO
           THEN PrimaryPath(r, component, element, callback, marginProp)
           ELSE FallbackPath(r, component, element, callback, marginProp)
    /\ ncalls' = Append(ncalls, 0)
    /\ last' = Event("registerLazy", Len(regs) + 1, <<>>)
    /\ call' = NoCall
    /\ UNCHANGED <<hasIO, marginIn, marginOut>>

-----------------------------------------------------------------------------
(* Lazy, index.ts:33-48 *)

\* the options of a @Lazy(options) decorator: absent, or an object with a margin
LazyOptions == {[given |-> FALSE, margin |-> Undefined]}
               \cup {[given |-> TRUE, margin |-> m] : m \in Margins}

\* the componentDidLoad found on the prototype when the decorator is applied:
\* none, or a function returning some result
PrevHooks == {[present |-> FALSE, result |-> "undefined"],
              [present |-> TRUE, result |-> "loaded"]}

NoHook == [invoked |-> FALSE, instance |-> "none", options |-> <<>>, prev |-> <<>>,
           prevCalled |-> FALSE, prevReceiver |-> "none", result |-> "none"]

\* const margin = options ? options.margin : "": index.ts:43
MarginOf(options) == IF options.given THEN options.margin ELSE <<>>

\* the wrapper without line 45: the hook that was on the prototype is dropped
componentDidLoad_noprev(this, options, prev) ==
    /\ registerLazy(this, getElement(this), Method(this), MarginOf(options))
    /\ hook' = [invoked |-> TRUE, instance |-> this, options |-> options,
                prev |-> prev, prevCalled |-> FALSE, prevReceiver |-> "none",
                result |-> IF regs'[Len(regs')].threw THEN "thrown" ELSE "undefined"]

\* the function installed as proto.componentDidLoad, run on instance `this`:
\* index.ts:40-46.  An error thrown by registerLazy leaves it at line 44.
componentDidLoad(this, options, prev) ==
    /\ registerLazy(this, getElement(this), Method(this), MarginOf(options))
    /\ LET threw == regs'[Len(regs')].threw
           called == prev.present /\ ~threw
       IN  hook' = [invoked |-> TRUE, instance |-> this, options |-> options,
                    prev |-> prev,
                    prevCalled |-> called,
                    prevReceiver |-> IF called THEN this ELSE "none",
                    result |-> IF threw THEN "thrown"
                               ELSE IF prev.present THEN prev.result
                               ELSE "undefined"]

Register ==
    \E component \in Components, options \in LazyOptions, prev \in PrevHooks :
        componentDidLoad(component, options, prev)

-----------------------------------------------------------------------------
(* The IntersectionObserver callback, index.ts:68-74 *)

Connected(w) == watchers[w].targets # {}

\* the closure body run on a report `data` for watcher w
OnIntersection_always(w, data, outcome) ==
    LET r == watchers[w].reg
    IN  /\ ncalls' = [ncalls EXCEPT ![r] = @ + 1]
        /\ call' = InvokeCallback(r, outcome)
        /\ IF outcome = "return"
           THEN /\ watchers' = [watchers EXCEPT ![regs[r].io].targets = {}]
                /\ regs' = [regs EXCEPT ![r].io = 0]
           ELSE UNCHANGED <<watchers, regs>>

\* faulty variant: one io variable shared by all closures (the last watcher made)
OnIntersection_sharedio(w, data, outcome) ==
    LET r == watchers[w].reg
    IN  IF data[1].isIntersecting
        THEN /\ ncalls' = [ncalls EXCEPT ![r] = @ + 1]
             /\ call' = InvokeCallback(r, outcome)
             /\ IF outcome = "return"
                THEN /\ watchers' = [watchers EXCEPT ![Len(watchers)].targets = {}]
                     /\ regs' = [regs EXCEPT ![watchers[Len(watchers)].reg].io = 0]
                ELSE UNCHANGED <<watchers, regs>>
        ELSE /\ call' = NoCall
             /\ UNCHANGED <<watchers, regs, ncalls>>

\* faulty variant: io.disconnect(); io = null ahead of callback.call(component)
OnIntersection_disconnectfirst(w, data, outcome) ==
    LET r == watchers[w].reg
    IN  IF data[1].isIntersecting
        THEN /\ watchers' = [watchers EXCEPT ![regs[r].io].targets = {}]
             /\ regs' = [regs EXCEPT ![r].io = 0]
             /\ ncalls' = [ncalls EXCEPT ![r] = @ + 1]
             /\ call' = InvokeCallback(r, outcome)
        ELSE /\ call' = NoCall
             /\ UNCHANGED <<watchers, regs, ncalls>>

\* faulty variant: any intersecting entry of the batch triggers
OnIntersection_any(w, data, outcome) ==
    LET r == watchers[w].reg
    IN  IF \E k \in 1..Len(data) : data[k].isIntersecting
        THEN /\ ncalls' = [ncalls EXCEPT ![r] = @ + 1]
             /\ call' = InvokeCallback(r, outcome)
             /\ IF outcome = "return"
                THEN /\ watchers' = [watchers EXCEPT ![regs[r].io].targets = {}]
                     /\ regs' = [regs EXCEPT ![r].io = 0]
                ELSE UNCHANGED <<watchers, regs>>
        ELSE /\ call' = NoCall
             /\ UNCHANGED <<watchers, regs, ncalls>>

OnIntersection(w, data, outcome) ==
    LET r == watchers[w].reg
    IN  IF data[1].isIntersecting
        THEN /\ ncalls' = [ncalls EXCEPT ![r] = @ + 1]
             /\ call' = InvokeCallback(r, outcome)
             /\ IF outcome = "return"
                THEN \* io.disconnect(); io = null
                     /\ watchers' = [watchers EXCEPT ![regs[r].io].targets = {}]
                     /\ regs' = [regs EXCEPT ![r].io = 0]
                ELSE \* the callback threw: lines 71-72 are not reached
                     UNCHANGED <<watchers, regs>>
        ELSE /\ call' = NoCall
             /\ UNCHANGED <<watchers, regs, ncalls>>

NumReports ==
    LET RECURSIVE Sum(_)
        Sum(w) == IF w = 0 THEN 0
                  ELSE delivered[w].nFalse + delivered[w].nTrue + Sum(w - 1)
    IN  Sum(Len(delivered))

\* The runtime delivers a report to a watcher that still observes a target,
\* and the watcher's callback handles it.
Report ==
    /\ NumReports < MaxReports
    /\ \E w \in 1..Len(watchers), data \in Batches :
         \* the callback has an outcome only when the report invokes it
         \E outcome \in IF data[1].isIntersecting THEN Outcomes ELSE {"return"} :
            /\ Connected(w)
            /\ delivered' = [delivered EXCEPT
                                ![w].nFalse = IF data[1].isIntersecting THEN @ ELSE @ + 1,
                                ![w].nTrue = IF data[1].isIntersecting THEN @ + 1 ELSE @]
            /\ last' = Event("report", watchers[w].reg, data)
            /\ OnIntersection(w, data, outcome)
            /\ hook' = NoHook
            /\ UNCHANGED <<hasIO, timers, marginIn, marginOut>>

-----------------------------------------------------------------------------
(* The setTimeout fallback, index.ts:80-82 *)

\* Time passes while some timer is still waiting for its delay.
Tick ==
    /\ \E t \in 1..Len(timers) : timers[t].pending /\ timers[t].elapsed < timers[t].delay
    /\ timers' = [t \in 1..Len(timers) |->
                    IF timers[t].pending
                    THEN [timers[t] EXCEPT !.elapsed = @ + TickStep]
                    ELSE timers[t]]
    /\ last' = Event("tick", 0, <<>>)
    /\ call' = NoCall
    /\ hook' = NoHook
    /\ UNCHANGED <<hasIO, regs, watchers, ncalls, delivered, marginIn, marginOut>>

\* the timer closure: callback.call(component)
OnTimeout(t, outcome) ==
    LET r == timers[t].reg
    IN  /\ ncalls' = [ncalls EXCEPT ![r] = @ + 1]
        /\ call' = InvokeCallback(r, outcome)
        /\ UNCHANGED <<regs, watchers>>

\* The runtime runs a timer once, not before its delay has elapsed.
Timeout ==
    \E t \in 1..Len(timers), outcome \in Outcomes :
        /\ timers[t].pending
        /\ timers[t].elapsed >= timers[t].delay
        /\ timers' = [timers EXCEPT ![t].pending = FALSE]
        /\ last' = Event("timeout", timers[t].reg, <<>>)
        /\ OnTimeout(t, outcome)
        /\ hook' = NoHook
        /\ UNCHANGED <<hasIO, delivered, marginIn, marginOut>>

-----------------------------------------------------------------------------
(* Specification of the registrar *)

Init ==
    /\ hasIO \in BOOLEAN
    /\ regs = <<>>
    /\ watchers = <<>>
    /\ timers = <<>>
    /\ ncalls = <<>>
    /\ delivered = <<>>
    /\ last = Event("init", 0, <<>>)
    /\ call = NoCall
    /\ hook = NoHook
    /\ marginIn = Undefined
    /\ marginOut = Unset

Next == Register \/ Report \/ Tick \/ Timeout

Spec == Init /\ [][Next]_vars

\* The registrar under a running event loop: time passes while a timer still
\* waits for its delay, and a timer whose delay has elapsed is run.  Whether
\* and when an element is reported as intersecting is up to the page, so
\* reports carry no fairness.
SpecLive == Spec /\ WF_vars(Tick) /\ WF_vars(Timeout)

-----------------------------------------------------------------------------
(* Specification of standalone getValidMargin calls *)

Alphabet == {"1", "-", ".", "p", "x", "%", " "}
ShortStrings == UNION { [1..n -> Alphabet] : n \in 0..MaxLen }

SampleTokens == { <<"1", "p", "x">>,
                  <<"-", "5", ".", "5", "%">>,
                  <<".", "5", "p", "x">>,
                  <<"1", "0">>,
                  <<"1", "0", "e", "m">> }
SampleSeparators == { <<" ">>, <<" ", "\t">> }

RECURSIVE Joined(_)
Joined(n) ==
    IF n = 1 THEN SampleTokens
    ELSE { s \o sep \o t : s \in Joined(n - 1), sep \in SampleSeparators,
                           t \in SampleTokens }

LongStrings == UNION { Joined(n) : n \in 1..MaxTokens }

MarginInputs == {Undefined} \cup ShortStrings \cup LongStrings

InitMargin ==
    /\ hasIO = TRUE
    /\ regs = <<>>
    /\ watchers = <<>>
    /\ timers = <<>>
    /\ ncalls = <<>>
    /\ delivered = <<>>
    /\ last = Event("init", 0, <<>>)
    /\ call = NoCall
    /\ hook = NoHook
    /\ marginIn \in MarginInputs
    /\ marginOut = Unset

Validate ==
    /\ marginOut = Unset
    /\ marginOut' = getValidMargin(marginIn)
    /\ UNCHANGED <<hasIO, regs, watchers, timers, ncalls, delivered, last, call,
                   hook, marginIn>>

NextMargin == Validate

SpecMargin == InitMargin /\ [][NextMargin]_vars

-----------------------------------------------------------------------------
(* Vocabulary of the properties *)

Regs == 1..Len(regs)
Watchers == 1..Len(watchers)
Timers == 1..Len(timers)

WatchersOf(r) == { w \in Watchers : watchers[w].reg = r }
TimersOf(r) == { t \in Timers : timers[t].reg = r }
Terminal(r) ==
    /\ \A w \in WatchersOf(r) : ~Connected(w)
    /\ \A t \in TimersOf(r) : ~timers[t].pending
LiveWatchersOn(element) == { w \in Watchers : element \in watchers[w].targets }

ZeroPx == <<"0", "p", "x">>
IsString(v) == v # Undefined /\ v # Null /\ v # Unset
Blank(s) == \A k \in 1..Len(s) : s[k] \in Whitespace

\* The tokens of s: the stretches s[i..j] without whitespace that lie between
\* two runs of whitespace or an end of s.  A stretch is empty only at an end
\* of s that is whitespace.
Tokens(s) ==
    { p \in (1..Len(s) + 1) \X (0..Len(s)) :
        /\ p[2] >= p[1] - 1
        /\ \A k \in p[1]..p[2] : s[k] \notin Whitespace
        /\ p[1] = 1 \/ s[p[1] - 1] \in Whitespace
        /\ p[2] = Len(s) \/ s[p[2] + 1] \in Whitespace
        /\ p[2] = p[1] - 1 => (p[1] = 1 \/ p[1] = Len(s) + 1) }

\* optional '-', digits with an optional decimal point, then 'px' or '%'
WellFormedToken(t) ==
    \E sign \in {0, 1}, unit \in {1, 2} :
        LET n == Len(t)
            number == SubSeq(t, sign + 1, n - unit)
        IN  /\ n >= sign + 1 + unit
            /\ sign = 1 => t[1] = "-"
            /\ unit = 1 => t[n] = "%"
            /\ unit = 2 => t[n - 1] = "p" /\ t[n] = "x"
            /\ \A k \in 1..Len(number) : number[k] \in Digits \cup {"."}
            /\ Cardinality({ k \in 1..Len(number) : number[k] = "." }) <= 1
            /\ number[Len(number)] \in Digits

EveryTokenWellFormed(s) ==
    \A p \in Tokens(s) : WellFormedToken(SubSeq(s, p[1], p[2]))

-----------------------------------------------------------------------------
(* Properties *)

\* C1: on the primary path the callback of a registration is invoked at most
\* once, whatever reports are delivered to its watcher.
C1_InvokedAtMostOnce ==
    hasIO => \A r \in Regs : ncalls[r] <= 1

C3_NoWatcherSurvivesCallback ==
    \A r \in Regs :
        ncalls[r] > 0 => regs[r].io = 0 /\ \A w \in WatchersOf(r) : ~Connected(w)

\* C4 as stated: registerLazy throws whenever getValidMargin rejects the
\* margin, whether or not IntersectionObserver is available.
C4_ThrowsWheneverRejected ==
    \A r \in Regs : getValidMargin(regs[r].marginProp) = Null => regs[r].threw

\* C4 as amended: registerLazy throws exactly when IntersectionObserver is
\* available and getValidMargin rejects the margin; without
\* IntersectionObserver the margin is not validated, nothing is thrown and the
\* timer is scheduled.
C4_ThrowsIffRejectedWithIO ==
    \A r \in Regs :
        /\ regs[r].threw <=> (hasIO /\ getValidMargin(regs[r].marginProp) = Null)
        /\ ~hasIO => TimersOf(r) # {}

\* C4 witness: a registerLazy call has thrown on a rejected margin.
C4_Thrown ==
    \E r \in Regs : regs[r].threw /\ last.op = "registerLazy" /\ last.reg = r

\* C5: with IntersectionObserver present and an invalid margin, registerLazy
\* throws and leaves nothing behind: no watcher, no observed element, no
\* timer, and the callback is not invoked in any later state.
C5_InvalidMarginLeavesNothing ==
    hasIO =>
        /\ \A r \in Regs :
              getValidMargin(regs[r].marginProp) = Null =>
                  /\ regs[r].threw
                  /\ regs[r].io = 0
                  /\ WatchersOf(r) = {}
                  /\ TimersOf(r) = {}
                  /\ ncalls[r] = 0
        /\ Len(watchers) = Cardinality({ r \in Regs : ~regs[r].threw })
        /\ timers = <<>>

\* C5 witness: a registration threw and the program went on handling a report
\* of another registration.
C5_ThrownAndLater ==
    \E r \in Regs : regs[r].threw /\ last.op = "report" /\ call.invoked

\* C6: without IntersectionObserver no watcher is ever created, and each
\* registration's callback is invoked exactly once, by its timer and not
\* before that timer's 300 units have elapsed.
C6_FallbackTimerOnly ==
    ~hasIO =>
        /\ watchers = <<>>
        /\ call.invoked => last.op = "timeout"
        /\ \A r \in Regs :
              /\ ncalls[r] <= 1
              /\ Cardinality(TimersOf(r)) = 1
              /\ \A t \in TimersOf(r) :
                    /\ ncalls[r] = 1 <=> ~timers[t].pending
                    /\ ncalls[r] = 1 => timers[t].elapsed >= Delay

\* C6 witness: a fallback registration's callback has been invoked by its timer.
C6_TimerFired ==
    /\ ~hasIO
    /\ last.op = "timeout"
    /\ call.invoked
    /\ ncalls[last.reg] = 1

\* C7: an element has at most one live watcher, also when it is registered twice.
C7_OneLiveWatcherPerElement ==
    \A c \in Components : Cardinality(LiveWatchersOn(getElement(c))) <= 1

\* C8: getValidMargin accepts a non-empty string if and only if every
\* whitespace-separated token is well-formed; it returns an accepted string
\* unchanged and Null otherwise, whatever the number of tokens.
C8_AcceptsIffEveryTokenWellFormed ==
    marginOut # Unset /\ IsString(marginIn) /\ marginIn # <<>> =>
        marginOut = IF EveryTokenWellFormed(marginIn) THEN marginIn ELSE Null

\* C8 witness: a margin of four tokens was accepted unchanged.
C8_FourTokensAccepted ==
    /\ IsString(marginIn)
    /\ Cardinality(Tokens(marginIn)) = 4
    /\ marginOut = marginIn

\* C9 as stated: undefined, the empty string and every all-whitespace string
\* give "0px".
C9_BlankGivesZeroPx ==
    marginOut # Unset /\ (marginIn = Undefined \/ Blank(marginIn)) => marginOut = ZeroPx

\* C9 as amended: undefined and the empty string give "0px"; a non-empty
\* all-whitespace string is rejected (Null).
C9_EmptyGivesZeroPxBlankRejected ==
    marginOut # Unset =>
        /\ marginIn = Undefined \/ marginIn = <<>> => marginOut = ZeroPx
        /\ IsString(marginIn) /\ marginIn # <<>> /\ Blank(marginIn) => marginOut = Null

\* C9 witness: a non-empty all-whitespace margin was rejected.
C9_BlankRejected ==
    /\ IsString(marginIn) /\ marginIn # <<>> /\ Blank(marginIn)
    /\ marginOut = Null

\* C10: every invocation of the callback, by a report or by a timer, has the
\* component passed to registerLazy as receiver, is an invocation of the
\* callback passed with it, and passes no arguments.
C10_ReceiverIsComponent ==
    call.invoked =>
        /\ last.op \in {"report", "timeout"}
        /\ last.reg \in Regs
        /\ call.receiver = regs[last.reg].component
        /\ call.callback = regs[last.reg].callback
        /\ call.nargs = 0

\* C10 witness: the second of two registrations, made for another component
\* than the first, had its callback invoked.
C10_Invoked ==
    /\ call.invoked
    /\ last.reg = 2
    /\ regs[1].component # regs[2].component

\* C11: registrations are independent: a registration's callback is invoked by
\* the intersecting reports of its own watcher and by nothing else, its
\* watcher is disconnected by such a report only, its closure never holds
\* another registration's watcher, and an intersecting report invokes the
\* callback of its own registration in the very step it is delivered.
C11_RegistrationsIndependent ==
    /\ \A w \in Watchers :
          LET r == watchers[w].reg
          IN  /\ ncalls[r] = delivered[w].nTrue
              /\ ~Connected(w) => delivered[w].nTrue >= 1
              /\ regs[r].io \in {0, w}
    /\ last.op = "report" /\ last.data[1].isIntersecting =>
          /\ call.invoked
          /\ call.callback = regs[last.reg].callback
          /\ call.receiver = regs[last.reg].component

\* C11 witness: of two registrations on distinct elements the later one was
\* reported intersecting first: its callback ran and its watcher is
\* disconnected, while the earlier one is pending with its watcher connected.
C11_OneFiredOtherPending ==
    /\ Len(watchers) = 2
    /\ regs[watchers[1].reg].element # regs[watchers[2].reg].element
    /\ last.op = "report" /\ last.reg = watchers[2].reg
    /\ call.invoked /\ call.callback = regs[watchers[2].reg].callback
    /\ ~Connected(2) /\ ncalls[watchers[2].reg] = 1
    /\ Connected(1) /\ ncalls[watchers[1].reg] = 0 /\ regs[watchers[1].reg].io = 1

\* C12: a successful registerLazy call on the primary path creates exactly one
\* watcher; it observes exactly the element passed (nothing once it is
\* disconnected) and its rootMargin is the validated margin: "0px" for an
\* omitted or empty margin, the supplied string otherwise.
C12_OneWatcherOnElementWithMargin ==
    hasIO =>
        \A r \in Regs :
            ~regs[r].threw =>
                /\ Cardinality(WatchersOf(r)) = 1
                /\ \A w \in WatchersOf(r) :
                      /\ watchers[w].rootMargin =
                            IF regs[r].marginProp \in {Undefined, <<>>}
                            THEN ZeroPx ELSE regs[r].marginProp
                      /\ watchers[w].targets \subseteq {regs[r].element}
                      /\ last.op = "registerLazy" /\ last.reg = r =>
                            watchers[w].targets = {regs[r].element} /\ regs[r].io = w

\* C12 witness: two registrations were made, one without margin and one with
\* "100px"; their watchers have the rootMargins "0px" and "100px".
C12_BothMargins ==
    /\ Len(watchers) = 2
    /\ regs[watchers[1].reg].marginProp = <<>>
    /\ watchers[1].rootMargin = ZeroPx
    /\ regs[watchers[2].reg].marginProp = <<"1", "0", "0", "p", "x">>
    /\ watchers[2].rootMargin = <<"1", "0", "0", "p", "x">>
    /\ watchers[2].targets = {regs[watchers[2].reg].element}

\* C13: registerLazy returns without invoking the callback, on both paths:
\* the state left by a registerLazy call has no invocation in it, and every
\* invocation is made in a later step, by an intersecting report delivered to
\* the registration's watcher or by the completion of its timer.
C13_NoCallDuringRegistration ==
    /\ last.op = "registerLazy" => ~call.invoked /\ ncalls[last.reg] = 0
    /\ call.invoked => last.op \in {"report", "timeout"}
    /\ \A r \in Regs :
          ncalls[r] > 0 =>
              \/ \E w \in WatchersOf(r) : delivered[w].nTrue > 0
              \/ \E t \in TimersOf(r) : ~timers[t].pending

\* C13 witness: a second registerLazy call has just returned without an
\* invocation, after the first registration's callback was invoked in a step
\* of its own.
C13_RegisteredWithoutCall ==
    /\ last.op = "registerLazy" /\ last.reg = 2
    /\ ~regs[2].threw
    /\ ncalls[2] = 0 /\ ncalls[1] = 1
    /\ ~call.invoked

\* C14: under a running event loop the callback of a successful registration
\* is eventually invoked -- by the completion of its timer on the fallback
\* path, by the intersecting report that is delivered to its watcher on the
\* primary path -- and once it has been invoked the registration reaches a
\* terminal state: no live watcher and no pending timer.
C14_InvokedThenTerminal ==
    \A r \in 1..MaxRegs :
        /\ [](r \in Regs /\ TimersOf(r) # {} => <>(r \in Regs /\ ncalls[r] >= 1))
        /\ [](last.op = "report" /\ last.reg = r /\ last.data[1].isIntersecting
                => ncalls[r] >= 1)
        /\ [](r \in Regs /\ ncalls[r] >= 1 => <>Terminal(r))


\* C15 as stated: every run of the wrapped componentDidLoad calls registerLazy
\* with (instance, host element, decorated method, margin of the options)
\* and then calls the componentDidLoad that was on the prototype before, with
\* the instance as receiver, and returns its result.
C15_AlwaysChains ==
    hook.invoked =>
        /\ last.op = "registerLazy" /\ last.reg = Len(regs)
        /\ regs[Len(regs)].component = hook.instance
        /\ regs[Len(regs)].element = getElement(hook.instance)
        /\ regs[Len(regs)].callback = Method(hook.instance)
        /\ regs[Len(regs)].marginProp =
              IF hook.options.given THEN hook.options.margin ELSE <<>>
        /\ hook.prev.present =>
              /\ hook.prevCalled
              /\ hook.prevReceiver = hook.instance
              /\ hook.result = hook.prev.result

\* C15 as amended: every run of the wrapped componentDidLoad calls
\* registerLazy exactly once, with (instance, host element, decorated method,
\* options.margin, or "" without options).  If registerLazy throws, the
\* exception leaves the hook and the earlier componentDidLoad is not called;
\* otherwise the earlier componentDidLoad, if there was one, is called once
\* with the instance as receiver and its result is returned, and undefined is
\* returned if there was none.
C15_RegistersThenChainsUnlessThrown ==
    [][hook'.invoked =>
          /\ Len(regs') = Len(regs) + 1
          /\ SubSeq(regs', 1, Len(regs)) = regs
          /\ last' = Event("registerLazy", Len(regs'), <<>>)
          /\ LET r == regs'[Len(regs')]
             IN  /\ r.component = hook'.instance
                 /\ r.element = getElement(hook'.instance)
                 /\ r.callback = Method(hook'.instance)
                 /\ r.marginProp =
                       IF hook'.options.given THEN hook'.options.margin ELSE <<>>
                 /\ hook'.prevCalled <=> hook'.prev.present /\ ~r.threw
                 /\ hook'.prevReceiver =
                       IF hook'.prevCalled THEN hook'.instance ELSE "none"
                 /\ hook'.result =
                       IF r.threw THEN "thrown"
                       ELSE IF hook'.prev.present THEN hook'.prev.result
                       ELSE "undefined"]_vars

\* C15 witness: the wrapped hook of c2, decorated with {margin: "100px"}, has
\* registered c2 and then returned the result of the earlier componentDidLoad.
C15_ChainedAfterRegistration ==
    /\ hook.invoked /\ hook.instance = "c2"
    /\ hook.options = [given |-> TRUE, margin |-> <<"1", "0", "0", "p", "x">>]
    /\ regs[Len(regs)].component = "c2" /\ ~regs[Len(regs)].threw
    /\ hook.prevCalled /\ hook.prevReceiver = "c2"
    /\ hook.result = "loaded"

\* C16: a report handler invokes the callback before it disconnects the
\* watcher, within the one step that delivers the report: a watcher is
\* disconnected only by the step of an intersecting report whose callback
\* returned; when the callback throws, the invocation has happened and the
\* watcher and the closure's io are left as they were; and every intersecting
\* report delivered to a watcher, a later one after a throw included, invokes
\* the callback in the step that delivers it.
C16_DisconnectedOnlyAfterReturn ==
    [][/\ \A w \in Watchers :
              Connected(w) /\ watchers'[w].targets = {} =>
                  /\ last' = Event("report", watchers[w].reg, last'.data)
                  /\ last'.data[1].isIntersecting
                  /\ call'.invoked /\ call'.outcome = "return"
                  /\ regs[watchers[w].reg].io = w
       /\ last'.op = "report" /\ call'.invoked /\ call'.outcome = "throw" =>
              /\ watchers' = watchers /\ regs' = regs
              /\ ncalls'[last'.reg] = ncalls[last'.reg] + 1
       /\ last'.op = "report" /\ last'.data[1].isIntersecting =>
              /\ call'.invoked
              /\ ncalls'[last'.reg] = ncalls[last'.reg] + 1]_vars

\* C16 witness: a watcher received two intersecting reports; the callback
\* threw on the first and was invoked again by the second, returned, and the
\* watcher is disconnected.
C16_InvokedAgainAfterThrow ==
    \E w \in Watchers :
        /\ delivered[w].nTrue = 2
        /\ ncalls[watchers[w].reg] = 2
        /\ last.op = "report" /\ last.reg = watchers[w].reg
        /\ call.invoked /\ call.outcome = "return"
        /\ ~Connected(w)

\* C17: only the first entry of a batch decides: a report whose first entry
\* is not intersecting invokes nothing and leaves the watcher, the closure's
\* io and the invocation count untouched, whatever its later entries say.
C17_FirstEntryDecides ==
    [][last'.op = "report" /\ ~last'.data[1].isIntersecting =>
          /\ call' = NoCall
          /\ UNCHANGED <<watchers, regs, ncalls>>
          /\ \E w \in WatchersOf(last'.reg) :
                /\ Connected(w)'
                /\ delivered'[w].nFalse = delivered[w].nFalse + 1]_vars

\* C17 witness: the batch [{isIntersecting: false}, {isIntersecting: true}]
\* was delivered: no invocation, the watcher is still connected.
C17_LaterEntryIgnored ==
    /\ last.op = "report"
    /\ Len(last.data) = 2
    /\ ~last.data[1].isIntersecting /\ last.data[2].isIntersecting
    /\ ~call.invoked
    /\ ncalls[last.reg] = 0
    /\ \A w \in WatchersOf(last.reg) : Connected(w) /\ delivered[w].nTrue = 0

====
